---------------------------- MODULE Spec2Model ----------------------------
(***************************************************************************)
(* tenper/core.py: the run context (a module-level dictionary that is      *)
(* replaced, never mutated, by the run_context context manager), the       *)
(* template formatting of configured and run, the subprocess call of run,  *)
(* the argument parser and the dispatcher main.                            *)
(*                                                                         *)
(* Python dictionaries have identity: a store is an entry of heap, and     *)
(* _run_context holds the identifier of the store the global names.       *)
(* Text is a sequence of string atoms; bytes are sequences of byte values. *)
(***************************************************************************)
EXTENDS Naturals, Sequences, FiniteSets, TLC

VARIABLES
    heap,           \* store identifier -> dictionary (key -> value)
    _run_context,   \* identifier of the dictionary the global _run_context names
    stack,          \* the run_context generators suspended at their yield, innermost last
    exc,            \* the exception propagating in the caller, "none" when there is none
    last,           \* what the last call into core.py was given, did and returned
    pc,             \* position of main
    argv,           \* sys.argv[1:] of the invocation
    arguments,      \* the Namespace parse_args returned
    loaded,         \* what config.load returned
    loads,          \* the paths config.load was called with, in order
    calls           \* the operations of tenper.command invoked, in order

corevars == <<heap, _run_context, stack, exc, last>>
mainvars == <<pc, argv, arguments, loaded, loads, calls>>
vars == <<heap, _run_context, stack, exc, last, pc, argv, arguments, loaded, loads, calls>>

----------------------------------------------------------------------------
(* Bounds *)

MaxDepth == 2       \* with-blocks the caller nests
MaxArgs == 3        \* command-line arguments

----------------------------------------------------------------------------
(* Python values.  A value is a string; the values that are not Python     *)
(* strings are written in angle brackets, and str() gives their text.      *)

PyNone == "<None>"
PyFalse == "<False>"
PyTrue == "<True>"
PyEmptyDict == "<{}>"
PyEmptyList == "<[]>"

\* str(value), as '{name}'.format(name=value) renders it
Str(v) ==
    CASE v = PyNone -> "None"
      [] v = PyFalse -> "False"
      [] v = PyTrue -> "True"
      [] v = PyEmptyDict -> "{}"
      [] v = PyEmptyList -> "[]"
      [] OTHER -> v

EmptyMap == [k \in {} |-> PyNone]

\* The dictionary the module creates at import (EDITOR unset, the
\* TENPER_* variables unset, home directory "~").
BaseContext ==
    [ editor |-> PyNone,
      config_path |-> "~/.tenper",
      virtualenvs_path |-> "~/.virtualenvs",
      tmux_command |-> "tmux",
      config_file_name |-> PyNone,
      project_root |-> PyNone,
      session_name |-> PyNone,
      virtualenv_configured |-> PyFalse,
      virtualenv_path |-> PyNone,
      virtualenv_python_binary |-> PyNone,
      virtualenv_use_site_packages |-> "--no-site-packages",
      environment |-> PyEmptyDict,
      windows |-> PyEmptyList ]

BaseId == 0

----------------------------------------------------------------------------
(* dict.copy and dict.update *)

copy(d) == [k \in DOMAIN d |-> d[k]]

updateKeepsOld(d, kwargs) ==
    [k \in (DOMAIN d) \cup (DOMAIN kwargs) |->
        IF k \in DOMAIN d THEN d[k] ELSE kwargs[k]]

update(d, kwargs) ==
    [k \in (DOMAIN d) \cup (DOMAIN kwargs) |->
        IF k \in DOMAIN kwargs THEN kwargs[k] ELSE d[k]]

----------------------------------------------------------------------------
(* The run_context context manager *)

\* A suspended generator: the local old_run_context, the store it
\* installed and the kwargs it was called with.
Frame(old, new, kwargs) == [old_run_context |-> old, store |-> new, kwargs |-> kwargs]

NoFrame == Frame(BaseId, BaseId, EmptyMap)

Top == stack[Len(stack)]

Pop == SubSeq(stack, 1, Len(stack) - 1)

\* A new dictionary gets an identifier no live dictionary has.
NewId(h) == CHOOSE i \in 0..Cardinality(DOMAIN h) : i \notin DOMAIN h

\* The dictionaries something still refers to: the module's base dictionary
\* (kept by the import-time binding in this model so that it can be compared
\* against), the global, and every generator's old_run_context.
Live(cur, stk) == {BaseId, cur} \cup {stk[i].old_run_context : i \in 1..Len(stk)}

Collect(h, cur, stk) == [i \in (DOMAIN h) \cap Live(cur, stk) |-> h[i]]

\* Lines 62-64: the heap once the copy has been made and updated.
enteredStore(h, cur, kwargs) ==
    (NewId(h) :> update(copy(h[cur]), kwargs)) @@ h

\* Line 66, reached when the block ends normally.
restoredToBase(frame, cur) == BaseId

restored(frame, cur) == frame.old_run_context

\* An exception raised in the block is thrown into the generator at the
\* yield of line 65; nothing catches it there, so line 66 is not executed.
thrown(frame, cur) == cur

----------------------------------------------------------------------------
(* Templates.  A template is a sequence of pieces: literal text, a         *)
(* {name} placeholder, or a single space.                                  *)

Lit(s) == [k |-> "lit", v |-> s]
Ph(n) == [k |-> "ph", v |-> n]
Sp == [k |-> "sp", v |-> " "]

\* str.format(**b): KeyError for a name that b does not bind, otherwise
\* every placeholder replaced by str() of its value.
Raised(e) == [exc |-> e, text |-> <<>>]
Returned(t) == [exc |-> "none", text |-> t]

formatLenient(t, b) ==
    Returned([i \in 1..Len(t) |->
        IF t[i].k = "ph"
        THEN (IF t[i].v \in DOMAIN b THEN Str(b[t[i].v]) ELSE "")
        ELSE t[i].v])

format(t, b) ==
    IF \E i \in 1..Len(t) : t[i].k = "ph" /\ t[i].v \notin DOMAIN b
    THEN Raised("KeyError")
    ELSE Returned([i \in 1..Len(t) |->
            IF t[i].k = "ph" THEN Str(b[t[i].v]) ELSE t[i].v])

\* command.split(' ')
RECURSIVE split(_)
split(t) ==
    IF t = <<>> THEN << <<>> >>
    ELSE LET rest == split(Tail(t)) IN
         IF Head(t).k = "sp"
         THEN << <<>> >> \o rest
         ELSE << <<Head(t)>> \o Head(rest) >> \o Tail(rest)

\* bytes.decode(): UTF-8, strict.  The text is the sequence of the code
\* points; bytes that are no UTF-8 raise UnicodeDecodeError.
IsContinuation(b) == b >= 128 /\ b <= 191

\* The number of bytes of the character a byte starts, 0 for a byte that
\* starts none.
Utf8Length(b) ==
    IF b < 128 THEN 1
    ELSE IF b >= 194 /\ b <= 223 THEN 2
    ELSE IF b >= 224 /\ b <= 239 THEN 3
    ELSE IF b >= 240 /\ b <= 244 THEN 4
    ELSE 0

\* The second byte of a character: the range excludes overlong forms,
\* surrogates and code points above U+10FFFF.
IsSecond(b0, b) ==
    /\ b >= (IF b0 = 224 THEN 160 ELSE IF b0 = 240 THEN 144 ELSE 128)
    /\ b <= (IF b0 = 237 THEN 159 ELSE IF b0 = 244 THEN 143 ELSE 191)

RECURSIVE decode(_)
decode(bs) ==
    IF bs = <<>> THEN Returned(<<>>)
    ELSE LET b0 == bs[1]
             n == Utf8Length(b0)
             wellFormed ==
                /\ n > 0
                /\ Len(bs) >= n
                /\ n >= 2 => IsSecond(b0, bs[2])
                /\ n >= 3 => IsContinuation(bs[3])
                /\ n >= 4 => IsContinuation(bs[4])
             point ==
                CASE n = 1 -> b0
                  [] n = 2 -> (b0 - 192) * 64 + (bs[2] - 128)
                  [] n = 3 -> (b0 - 224) * 4096 + (bs[2] - 128) * 64 + (bs[3] - 128)
                  [] n = 4 -> (b0 - 240) * 262144 + (bs[2] - 128) * 4096
                                + (bs[3] - 128) * 64 + (bs[4] - 128)
         IN  IF ~wellFormed THEN Raised("UnicodeDecodeError")
             ELSE LET rest == decode(SubSeq(bs, n + 1, Len(bs))) IN
                  IF rest.exc # "none" THEN rest
                  ELSE Returned(<<point>> \o rest.text)

----------------------------------------------------------------------------
(* subprocess.check_output *)

\* What the child does: whether the executable can be launched, its exit
\* status, and the bytes it writes to standard output and to standard error.
Child(launch, status, out, err) == [launch |-> launch, status |-> status, out |-> out, err |-> err]

NoChild == Child(FALSE, 0, <<>>, <<>>)

\* The exception check_output raises for this child, "none" when it returns.
check_output_exc(child) ==
    IF ~child.launch THEN "OSError"
    ELSE IF child.status # 0 THEN "CalledProcessError"
    ELSE "none"

\* The bytes check_output captured: standard output only (no stderr= is
\* passed); its return value, or the output attribute of CalledProcessError.
capturedStderr(child) == IF child.status # 0 THEN child.err ELSE child.out

captured(child) == child.out

\* Line 101: the exceptions the try statement of run handles.
handles(e) == e = "CalledProcessError"

----------------------------------------------------------------------------
(* configured and run *)

\* What a call did and returned.  exc is the exception it raised ("none"
\* when it returned); printed is the line written to standard output;
\* spawned tells whether subprocess.check_output was called, and args is
\* the argument list it was called with.
Outcome(e, ok, output, printed, spawned, args) ==
    [exc |-> e, ok |-> ok, output |-> output, printed |-> printed,
     spawned |-> spawned, args |-> args]

\* Lines 69-71.
configured(ctx, string) ==
    LET r == format(string, ctx) IN
    Outcome(r.exc, FALSE, r.text, <<>>, FALSE, <<>>)

\* Lines 93-105.
run(ctx, command, kwargs, child) ==
    LET formatting == update(ctx, kwargs)
        line == format(command, formatting)
        parts == split(command)
        args == [i \in 1..Len(parts) |-> format(parts[i], formatting)]
        failed == \E i \in 1..Len(parts) : args[i].exc # "none"
        argtexts == [i \in 1..Len(parts) |-> args[i].text]
        e == check_output_exc(child)
        text == decode(captured(child))
    IN  IF line.exc # "none"
        THEN Outcome(line.exc, FALSE, <<>>, <<>>, FALSE, <<>>)
        ELSE IF failed
        THEN Outcome("KeyError", FALSE, <<>>, <<"* ">> \o line.text, FALSE, <<>>)
        ELSE IF e # "none" /\ ~handles(e)
        THEN Outcome(e, FALSE, <<>>, <<"* ">> \o line.text, TRUE, argtexts)
        ELSE IF text.exc # "none"
        THEN Outcome(text.exc, FALSE, <<>>, <<"* ">> \o line.text, TRUE, argtexts)
        ELSE Outcome("none", e = "none", text.text,
                     <<"* ">> \o line.text, TRUE, argtexts)

----------------------------------------------------------------------------
(* The inputs of the calls *)

\* Keyword arguments given to run_context.
Overrides ==
    { EmptyMap,
      [session_name |-> "work"],
      [config_path |-> "/etc/tenper", temporary_thing |-> "foobar"] }

\* Commands given to run and strings given to configured.
Commands ==
    { <<Lit("echo"), Sp, Ph("greeting")>>,
      <<Lit("cp"), Sp, Ph("temporary_thing"), Sp, Ph("config_path")>>,
      <<Ph("tmux_command"), Sp, Lit("has-session"), Sp, Lit("-t"), Sp, Ph("session_name")>> }

\* Keyword arguments given to run.
Extras ==
    { EmptyMap,
      [greeting |-> "hi", session_name |-> "other"] }

\* hi\n, e-acute and a byte that is no UTF-8 on standard output; no, no\n
\* on standard error.
Children ==
    { Child(TRUE, 0, <<104, 105, 10>>, <<>>),
      Child(TRUE, 0, <<195, 169>>, <<110, 111>>),
      Child(TRUE, 1, <<>>, <<110, 111, 10>>),
      Child(TRUE, 2, <<104, 105>>, <<110, 111>>),
      Child(TRUE, 1, <<255>>, <<110, 111>>),
      Child(FALSE, 0, <<>>, <<>>) }

----------------------------------------------------------------------------
(* State *)

NoOutcome == Outcome("none", FALSE, <<>>, <<>>, FALSE, <<>>)

Last(op, command, kwargs, child, frame, result) ==
    [op |-> op, command |-> command, kwargs |-> kwargs, child |-> child,
     frame |-> frame, result |-> result]

NoLast == Last("none", <<>>, EmptyMap, NoChild, NoFrame, NoOutcome)

NoArguments == [command |-> "none", project_name |-> "none"]

Init ==
    /\ heap = (BaseId :> BaseContext)
    /\ _run_context = BaseId
    /\ stack = <<>>
    /\ exc = "none"
    /\ last = NoLast
    /\ pc = "start"
    /\ argv = <<>>
    /\ arguments = NoArguments
    /\ loaded = EmptyMap
    /\ loads = <<>>
    /\ calls = <<>>

----------------------------------------------------------------------------
(* The caller of core.py: with-blocks, calls of run and configured, and    *)
(* exceptions it raises and catches.                                       *)

\* with run_context(**kwargs): -- lines 62-65, up to the yield.
Enter(kwargs) ==
    /\ exc = "none"
    /\ Len(stack) < MaxDepth
    /\ heap' = enteredStore(heap, _run_context, kwargs)
    /\ _run_context' = NewId(heap)
    /\ stack' = Append(stack, Frame(_run_context, NewId(heap), kwargs))
    /\ last' = Last("enter", <<>>, kwargs, NoChild,
                    Frame(_run_context, NewId(heap), kwargs), NoOutcome)
    /\ UNCHANGED exc
    /\ UNCHANGED mainvars

\* The block ends normally: the generator resumes after the yield, line 66.
ExitNormal ==
    /\ exc = "none"
    /\ stack # <<>>
    /\ _run_context' = restored(Top, _run_context)
    /\ stack' = Pop
    /\ heap' = Collect(heap, _run_context', stack')
    /\ last' = Last("exit", <<>>, EmptyMap, NoChild, Top, NoOutcome)
    /\ UNCHANGED exc
    /\ UNCHANGED mainvars

\* An exception leaves the block: it is thrown into the generator.
ExitThrow ==
    /\ exc # "none"
    /\ stack # <<>>
    /\ _run_context' = thrown(Top, _run_context)
    /\ stack' = Pop
    /\ heap' = Collect(heap, _run_context', stack')
    /\ last' = Last("throw", <<>>, EmptyMap, NoChild, Top, NoOutcome)
    /\ UNCHANGED exc
    /\ UNCHANGED mainvars

\* The body of a block raises an exception of its own.
BlockRaises ==
    /\ exc = "none"
    /\ stack # <<>>
    /\ exc' = "Error"
    /\ last' = Last("raise", <<>>, EmptyMap, NoChild, NoFrame, NoOutcome)
    /\ UNCHANGED <<heap, _run_context, stack>>
    /\ UNCHANGED mainvars

\* The exception has left every block; the caller of the outermost block
\* catches it and goes on.
Catch ==
    /\ exc # "none"
    /\ stack = <<>>
    /\ exc' = "none"
    /\ last' = Last("catch", <<>>, EmptyMap, NoChild, NoFrame, NoOutcome)
    /\ UNCHANGED <<heap, _run_context, stack>>
    /\ UNCHANGED mainvars

Run(command, kwargs, child) ==
    /\ exc = "none"
    /\ LET r == run(heap[_run_context], command, kwargs, child) IN
        /\ exc' = r.exc
        /\ last' = Last("run", command, kwargs,
                        IF r.spawned THEN child ELSE NoChild, NoFrame, r)
    /\ UNCHANGED <<heap, _run_context, stack>>
    /\ UNCHANGED mainvars

Configured(string) ==
    /\ exc = "none"
    /\ LET r == configured(heap[_run_context], string) IN
        /\ exc' = r.exc
        /\ last' = Last("configured", string, EmptyMap, NoChild, NoFrame, r)
    /\ UNCHANGED <<heap, _run_context, stack>>
    /\ UNCHANGED mainvars

EnterAny == \E kwargs \in Overrides : Enter(kwargs)

RunAny == \E command \in Commands, kwargs \in Extras, child \in Children :
            Run(command, kwargs, child)

ConfiguredAny == \E string \in Commands : Configured(string)

Next ==
    \/ EnterAny
    \/ ExitNormal
    \/ ExitThrow
    \/ BlockRaises
    \/ Catch
    \/ RunAny
    \/ ConfiguredAny

Spec == Init /\ [][Next]_vars

----------------------------------------------------------------------------
(* parse_args *)

Absent == "<absent>"

Namespace(e, command, project_name) ==
    [exc |-> e, command |-> command, project_name |-> project_name]

Subcommands == {"edit", "rebuild", "delete"}

\* Lines 149-151: the rewrite of the project name 'list'.
neverList(args, ns) == ns

listRewrite(args, ns) ==
    IF ns.project_name = "list"
    THEN Namespace("none", "list", Absent)
    ELSE ns

\* argparse takes a word for an option by its first characters.  The words
\* of the model that begin with '-' and go on with a letter or another '-':
OptionWords == {"-h", "--help", "-x"}

\* The options every parser has.
HelpWords == {"-h", "--help"}

\* The first word that is no option, Len(args) + 1 when every word is one.
FirstPositional(args) ==
    IF \A i \in 1..Len(args) : args[i] \in OptionWords
    THEN Len(args) + 1
    ELSE CHOOSE i \in 1..Len(args) :
            /\ args[i] \notin OptionWords
            /\ \A j \in 1..(i - 1) : args[j] \in OptionWords

\* Lines 129-153.  argparse prints the help and ends the process with
\* status 0 for a help option, and ends it with status 2 for any other
\* option, a first word that is no subcommand, and a missing or an extra
\* word.  With no argument the subparser branch returns a Namespace that
\* has no project_name, and line 149 raises AttributeError.  (The
\* pseudo-argument '--' is not among the words of the model.)
parse_args(args) ==
    LET p == FirstPositional(args) IN
    IF Len(args) = 0 THEN Namespace("AttributeError", "none", Absent)
    ELSE IF Len(args) = 1
    THEN (IF args[1] \in HelpWords THEN Namespace("SystemExit(0)", "none", Absent)
          ELSE IF args[1] \in OptionWords THEN Namespace("SystemExit(2)", "none", Absent)
          ELSE listRewrite(args, Namespace("none", "start", args[1])))
    ELSE IF \E i \in 1..(p - 1) : args[i] \in HelpWords
    THEN Namespace("SystemExit(0)", "none", Absent)
    ELSE IF p > Len(args) \/ args[p] \notin Subcommands
    THEN Namespace("SystemExit(2)", "none", Absent)
    ELSE IF \E i \in (p + 1)..Len(args) : args[i] \in HelpWords
    THEN Namespace("SystemExit(0)", "none", Absent)
    ELSE IF p # 1 \/ Len(args) # 2 \/ args[2] \in OptionWords
    THEN Namespace("SystemExit(2)", "none", Absent)
    ELSE listRewrite(args, Namespace("none", args[1], args[2]))

----------------------------------------------------------------------------
(* main *)

\* Line 168: the commands that take the else branch.
loadsUnlessEdit(command) == command \notin {"list", "edit"}

loadsConfig(command) == command # "list"

\* The strings of the model that begin with the path separator, and those
\* that end with it.
AbsoluteWords == {"/", "/abs", "/tmp", "/tmp/", "/etc/tenper", "/src/myproj"}

SeparatorEnded == {"/", "/tmp/"}

\* os.path.join(a, b), b given by its pieces: b alone when it is absolute,
\* otherwise a and b, with a separator between them unless a is empty or
\* ends with one.
join(a, b) ==
    IF b[1] \in AbsoluteWords THEN b
    ELSE IF a = "" \/ a \in SeparatorEnded THEN <<a>> \o b
    ELSE <<a, "/">> \o b

\* Lines 172-173: os.path.join(config_path, '{}.yml'.format(project_name))
config_file_name(ctx, project_name) ==
    join(ctx["config_path"], <<Str(project_name), ".yml">>)

\* An operation of tenper.command as main invoked it: its name, the
\* argument, the store that was current and that store's contents, and the
\* number of with-blocks open around it.
Call(op, project_name, store, context, depth) ==
    [op |-> op, project_name |-> project_name, store |-> store,
     context |-> context, depth |-> depth]

\* config.load: the mapping read from the file, or a failure.
LoadedConfigs ==
    { [session_name |-> "myproj", project_root |-> "/src/myproj"],
      [session_name |-> "s", virtualenv_configured |-> PyTrue, config_path |-> "/tmp"] }

\* sys.argv[1:]
Words == {"list", "edit", "rebuild", "delete", "myproj", "/abs", "-h", "-x"}

Argvs == UNION {[1..n -> Words] : n \in 0..MaxArgs}

\* Line 166.
MainParse(args) ==
    /\ pc = "start"
    /\ argv' = args
    /\ LET ns == parse_args(args) IN
        /\ arguments' = [command |-> ns.command, project_name |-> ns.project_name]
        /\ exc' = ns.exc
        /\ pc' = IF ns.exc = "none" THEN "parsed" ELSE "done"
    /\ UNCHANGED <<heap, _run_context, stack, last, loaded, loads, calls>>

\* Lines 168-169: command.list(), which returns or raises.
MainList(raises) ==
    /\ pc = "parsed"
    /\ ~loadsConfig(arguments.command)
    /\ calls' = Append(calls, Call("list", Absent, _run_context,
                                   heap[_run_context], Len(stack)))
    /\ exc' = IF raises THEN "Error" ELSE "none"
    /\ pc' = "done"
    /\ UNCHANGED <<heap, _run_context, stack, last, argv, arguments, loaded, loads>>

\* Lines 172-175: config.load(config_file_name) returns a mapping.
MainLoad(config) ==
    /\ pc = "parsed"
    /\ loadsConfig(arguments.command)
    /\ loads' = Append(loads, config_file_name(heap[_run_context], arguments.project_name))
    /\ loaded' = config
    /\ pc' = "loaded"
    /\ UNCHANGED <<heap, _run_context, stack, exc, last, argv, arguments, calls>>

\* Lines 172-175: config.load(config_file_name) fails.
MainLoadFails ==
    /\ pc = "parsed"
    /\ loadsConfig(arguments.command)
    /\ loads' = Append(loads, config_file_name(heap[_run_context], arguments.project_name))
    /\ exc' = "LoadError"
    /\ pc' = "done"
    /\ UNCHANGED <<heap, _run_context, stack, last, argv, arguments, loaded, calls>>

\* Line 175: with run_context(**loaded), up to the yield.
MainEnter ==
    /\ pc = "loaded"
    /\ heap' = enteredStore(heap, _run_context, loaded)
    /\ _run_context' = NewId(heap)
    /\ stack' = Append(stack, Frame(_run_context, NewId(heap), loaded))
    /\ pc' = "block"
    /\ UNCHANGED <<exc, last, argv, arguments, loaded, loads, calls>>

\* Line 176: getattr(command, arguments.command)(arguments.project_name),
\* which returns or raises.
MainInvoke(raises) ==
    /\ pc = "block"
    /\ calls' = Append(calls, Call(arguments.command, arguments.project_name,
                                   _run_context, heap[_run_context], Len(stack)))
    /\ exc' = IF raises THEN "Error" ELSE "none"
    /\ pc' = "called"
    /\ UNCHANGED <<heap, _run_context, stack, last, argv, arguments, loaded, loads>>

\* The with statement ends: line 66 when the operation returned, nothing
\* when it raised.
MainExit ==
    /\ pc = "called"
    /\ _run_context' = IF exc = "none" THEN restored(Top, _run_context)
                       ELSE thrown(Top, _run_context)
    /\ stack' = Pop
    /\ heap' = Collect(heap, _run_context', stack')
    /\ pc' = "done"
    /\ UNCHANGED <<exc, last, argv, arguments, loaded, loads, calls>>

MainParseAny == \E args \in Argvs : MainParse(args)

MainListAny == \E raises \in BOOLEAN : MainList(raises)

MainLoadAny == \E config \in LoadedConfigs : MainLoad(config)

MainInvokeAny == \E raises \in BOOLEAN : MainInvoke(raises)

NextMain ==
    \/ MainParseAny
    \/ MainListAny
    \/ MainLoadAny
    \/ MainLoadFails
    \/ MainEnter
    \/ MainInvokeAny
    \/ MainExit

SpecMain == Init /\ [][NextMain]_vars

----------------------------------------------------------------------------
(* Properties of the run context (specification Spec) *)

\* C1: after a with run_context(...) block has ended, normally or by an
\* exception, the current store is the very store that was current before
\* the block was entered.
C1_RestoredOnEveryExit ==
    last.op \in {"exit", "throw"} => _run_context = last.frame.old_run_context

\* The keys the blocks now open were entered with, and the keys of the
\* store that was current before the outermost of them.
OuterKeys ==
    (IF stack = <<>> THEN DOMAIN heap[_run_context]
     ELSE DOMAIN heap[stack[1].old_run_context])
    \cup UNION {DOMAIN stack[i].kwargs : i \in 1..Len(stack)}

\* C2: with blocks entered and left normally, the scopes unwind last in
\* first out: the current store is the store of the innermost open block,
\* each block was entered from the store of the block around it, the
\* innermost block's keys are visible with its values, and once an inner
\* block has ended inside an outer one a key only the inner block set is
\* no longer visible.
C2_NestedScopesUnwindLIFO ==
    (exc = "none" /\ stack # <<>>) =>
        /\ _run_context = Top.store
        /\ \A i \in 2..Len(stack) : stack[i].old_run_context = stack[i-1].store
        /\ \A k \in DOMAIN Top.kwargs :
              k \in DOMAIN heap[_run_context] /\ heap[_run_context][k] = Top.kwargs[k]
        /\ last.op = "exit" =>
              /\ last.frame.old_run_context = Top.store
              /\ \A k \in (DOMAIN last.frame.kwargs) \ OuterKeys :
                    k \notin DOMAIN heap[_run_context]

C2_Witness ==
    /\ exc = "none"
    /\ Len(stack) = 1
    /\ last.op = "exit"
    /\ \E k \in (DOMAIN last.frame.kwargs) \ OuterKeys : k \notin DOMAIN heap[_run_context]

\* C3: entering run_context(**kwargs) installs a new store holding the
\* previous store's items with kwargs merged in (kwargs win, new keys are
\* added); the stores that existed keep their items, on entry and on exit.
C3_EntryMergesIntoNewStore ==
    [][ /\ last'.op = "enter" =>
            LET f == last'.frame
                old == heap[_run_context]
                new == heap'[_run_context']
            IN  /\ f.old_run_context = _run_context
                /\ f.store = _run_context'
                /\ f.store \notin DOMAIN heap
                /\ DOMAIN new = (DOMAIN old) \cup (DOMAIN f.kwargs)
                /\ \A k \in DOMAIN new :
                      new[k] = IF k \in DOMAIN f.kwargs THEN f.kwargs[k] ELSE old[k]
                /\ \A i \in DOMAIN heap : heap'[i] = heap[i]
        /\ last'.op \in {"exit", "throw"} =>
                /\ BaseId \in DOMAIN heap'
                /\ \A i \in DOMAIN heap' : i \in DOMAIN heap /\ heap'[i] = heap[i]
                /\ last'.op = "exit" => last'.frame.old_run_context \in DOMAIN heap'
      ]_vars

C3_Witness ==
    /\ last.op = "enter"
    /\ LET old == heap[last.frame.old_run_context] IN
        /\ \E k \in (DOMAIN last.kwargs) \cap (DOMAIN old) : old[k] # last.kwargs[k]
        /\ \E k \in DOMAIN last.kwargs : k \notin DOMAIN old

\* The last call was given a template with a placeholder that neither the
\* current store nor the keyword arguments bind.
UnboundPlaceholder ==
    \E i \in 1..Len(last.command) :
        /\ last.command[i].k = "ph"
        /\ last.command[i].v \notin (DOMAIN heap[_run_context]) \cup (DOMAIN last.kwargs)

\* C4: run and configured, given a template with an unbound placeholder,
\* raise KeyError to the caller: nothing is returned, and run calls
\* subprocess.check_output for no command.
C4_UnboundPlaceholderRaises ==
    (last.op \in {"run", "configured"} /\ UnboundPlaceholder) =>
        /\ last.result.exc = "KeyError"
        /\ exc = "KeyError"
        /\ last.result.output = <<>>
        /\ ~last.result.spawned
        /\ last.result.args = <<>>

C4_Witness ==
    /\ last.op = "run"
    /\ UnboundPlaceholder
    /\ stack # <<>>

\* C5 as stated: a child that exits with a non-zero status does not make run raise:
\* run returns with ok false and no exception is left propagating, so the
\* caller's next statement runs; ok is true only for exit status zero; and
\* run leaves the stores and the current store as they were.
C5_NonZeroExitIsReturned ==
    [][ last'.op = "run" =>
            /\ heap' = heap
            /\ _run_context' = _run_context
            /\ stack' = stack
            /\ (last'.result.spawned /\ last'.child.launch /\ last'.child.status # 0) =>
                  /\ last'.result.exc = "none"
                  /\ exc' = "none"
                  /\ last'.result.ok = FALSE
            /\ last'.result.ok =>
                  /\ last'.result.spawned
                  /\ last'.child.launch
                  /\ last'.child.status = 0
                  /\ exc' = "none"
      ]_vars

\* The last call of run launched a child that ran to its exit.
ChildExited ==
    /\ last.op = "run"
    /\ last.result.spawned
    /\ last.child.launch

\* C10 as stated: the output run returns is the child's error output when
\* the exit status is non-zero and its standard output when it is zero.
C10_OutputIsStderrOnFailure ==
    (ChildExited /\ last.result.exc = "none") =>
        last.result.output =
            decode(IF last.child.status # 0 THEN last.child.err
                   ELSE last.child.out).text

\* C10 amended: the output run returns is the text of the child's standard
\* output, whatever the exit status; the error output is not captured.
\* When the standard output is no UTF-8 run returns nothing: it raises
\* UnicodeDecodeError.
C10_OutputIsStdout ==
    ChildExited =>
        LET text == decode(last.child.out) IN
        IF text.exc = "none"
        THEN last.result.exc = "none" /\ last.result.output = text.text
        ELSE last.result.exc = "UnicodeDecodeError" /\ last.result.output = <<>>

C10_Witness ==
    /\ ChildExited
    /\ last.child.status # 0
    /\ last.child.out # last.child.err
    /\ last.result.exc = "none"
    /\ last.result.output = <<104, 105>>

----------------------------------------------------------------------------
(* Properties of the dispatcher (specification SpecMain) *)

ProjectArg == argv[Len(argv)]

\* A word that can be a project name: argparse takes it for no option.
IsName(w) == w \notin OptionWords

\* {config_path}/<name>.yml
PathUnderConfigPath == <<"~/.tenper", "/", ProjectArg, ".yml">>

\* os.path.join(config_path, '<name>.yml'): a name that begins with the
\* separator replaces the directory.
JoinedPath ==
    IF ProjectArg \in AbsoluteWords THEN <<ProjectArg, ".yml">>
    ELSE PathUnderConfigPath

\* The store main's with-block installs: the base items, the loaded ones
\* winning.
ExpectedOverlay ==
    [k \in (DOMAIN BaseContext) \cup (DOMAIN loaded) |->
        IF k \in DOMAIN loaded THEN loaded[k] ELSE BaseContext[k]]

\* The one operation was invoked inside main's overlay.
InvokedInOverlay(op) ==
    /\ Len(calls) = 1
    /\ calls[1].op = op
    /\ calls[1].project_name = ProjectArg
    /\ calls[1].depth = 1
    /\ calls[1].store # BaseId
    /\ calls[1].context = ExpectedOverlay

\* Load of path, then overlay, then one operation; nothing after a failed
\* load.
LoadThenOverlayThenInvoke(op, path) ==
    /\ pc = "parsed" => (loads = <<>> /\ calls = <<>> /\ stack = <<>>)
    /\ pc \in {"loaded", "block", "called", "done"} => loads = <<path>>
    /\ pc = "loaded" => (calls = <<>> /\ stack = <<>>)
    /\ exc = "LoadError" =>
          (calls = <<>> /\ stack = <<>> /\ _run_context = BaseId /\ pc = "done")
    /\ pc = "block" =>
          (calls = <<>> /\ Len(stack) = 1 /\ heap[_run_context] = ExpectedOverlay)
    /\ (pc \in {"called", "done"} /\ exc # "LoadError") => InvokedInOverlay(op)

\* C6: edit, rebuild and delete keep their command and their project name,
\* whatever the name; list is resolved only for the single argument list,
\* and any other single argument resolves to start.
C6_SubcommandKeepsProjectName ==
    (pc # "start" /\ arguments.command # "none") =>
        /\ (Len(argv) = 2 /\ argv[1] \in Subcommands) =>
              (arguments.command = argv[1] /\ arguments.project_name = argv[2])
        /\ arguments.command = "list" => argv = <<"list">>
        /\ (Len(argv) = 1 /\ argv[1] # "list") =>
              (arguments.command = "start" /\ arguments.project_name = argv[1])

IsEdit == Len(argv) = 2 /\ argv[1] = "edit" /\ IsName(argv[2])

\* C7 as stated: for edit <name> main loads no configuration and opens no
\* overlay, and the edit operation is invoked against the base context.
C7_EditRunsWithoutLoad ==
    IsEdit =>
        /\ loads = <<>>
        /\ stack = <<>>
        /\ _run_context = BaseId
        /\ pc = "done" =>
              /\ Len(calls) = 1
              /\ calls[1].op = "edit"
              /\ calls[1].store = BaseId
              /\ calls[1].depth = 0

\* C7 amended: for edit <name> main does what it does for rebuild and
\* delete: it loads os.path.join(config_path, '<name>.yml'), installs the
\* overlay of the loaded items and invokes the edit operation inside it,
\* and invokes nothing when the load fails; for the name list, which
\* parse_args resolves to list, it invokes the list operation with no load.
C7_EditLoadsLikeTheOthers ==
    IsEdit =>
        /\ \A i \in 1..Len(calls) : calls[i].op = "edit" => InvokedInOverlay("edit")
        /\ (pc # "start" /\ argv[2] # "list") =>
              LoadThenOverlayThenInvoke("edit", JoinedPath)
        /\ (pc = "done" /\ argv[2] = "list") =>
              /\ loads = <<>>
              /\ Len(calls) = 1
              /\ calls[1].op = "list"
              /\ calls[1].store = BaseId

C7_Witness ==
    /\ argv = <<"edit", "myproj">>
    /\ pc = "done"
    /\ exc = "none"
    /\ loads = <<PathUnderConfigPath>>
    /\ InvokedInOverlay("edit")

\* C8: for a single argument other than list, and for rebuild <name> and
\* delete <name>, main loads {config_path}/<name>.yml, then enters the
\* overlay of the loaded items, then invokes the one operation the command
\* names with the project name inside that overlay; after a failed load it
\* installs no overlay and invokes nothing.
C8_LoadThenOverlayThenInvoke ==
    /\ (pc # "start" /\ Len(argv) = 1 /\ argv[1] # "list" /\ IsName(argv[1])) =>
            LoadThenOverlayThenInvoke("start", PathUnderConfigPath)
    /\ (pc # "start" /\ Len(argv) = 2 /\ argv[1] \in {"rebuild", "delete"}
            /\ IsName(argv[2])) =>
            LoadThenOverlayThenInvoke(argv[1], PathUnderConfigPath)

\* C9: for the single argument list, main invokes the list operation once,
\* loads nothing and installs no overlay: the current store is the base
\* store throughout.
C9_ListRunsOnBase ==
    argv = <<"list">> =>
        /\ arguments.command = "list"
        /\ loads = <<>>
        /\ stack = <<>>
        /\ _run_context = BaseId
        /\ heap = (BaseId :> BaseContext)
        /\ pc \in {"parsed", "done"}
        /\ pc = "parsed" => calls = <<>>
        /\ pc = "done" =>
              /\ Len(calls) = 1
              /\ calls[1].op = "list"
              /\ calls[1].store = BaseId
              /\ calls[1].depth = 0

C9_Witness ==
    /\ argv = <<"list">>
    /\ pc = "done"
    /\ Len(calls) = 1

=============================================================================
